---- MODULE Spec2Model ----
(***************************************************************************)
(* A model of detector_SaraswathideviS.py: the PIIDetector class           *)
(* (is_standalone_pii, is_full_name, is_physical_address,                  *)
(* detect_combinatorial_pii, mask_value, process_record) and the row loop  *)
(* of main.                                                                *)
(*                                                                         *)
(* Python strings are sequences of one-character strings, so that strip,   *)
(* split, slicing and the regular expressions are computed and not         *)
(* assumed.  A JSON value is a record [t, s]: t = "str" with its           *)
(* characters s, t = "num" with its decimal digits s, or t = "null".       *)
(* A Python dict is a sequence of [k, v] fields with distinct keys, in     *)
(* insertion order.  The alphabet is ASCII.                                *)
(***************************************************************************)
EXTENDS Integers, Sequences, FiniteSets, TLC

VARIABLES
    detector,           \* self.*_pattern: the compiled pattern state
    pc,                 \* position of the single-threaded caller
    in_key, in_value,   \* arguments of a direct call of a detector method
    ret,                \* what that call returned
    record,             \* argument of process_record / detect_combinatorial_pii
    redacted, is_pii,   \* process_record's result
    has_comb, found,    \* detect_combinatorial_pii's result
    rows, idx,          \* main: the reader's rows and the loop position
    out,                \* main: the data rows written to the output csv
    records_processed,  \* main: counter printed as "Records processed"
    pii_detected,       \* main: counter printed as "PII records detected"
    w_given,            \* workers: the record each worker was handed
    w_record,           \* workers: that record as the worker's call sees it
    w_pc, w_idx,        \* workers: position inside process_record
    w_redacted,         \* workers: local redacted_data
    w_is_pii,           \* workers: local is_pii
    w_found             \* workers: local found_fields

vars == <<detector, pc, in_key, in_value, ret, record, redacted, is_pii,
          has_comb, found, rows, idx, out, records_processed, pii_detected,
          w_given, w_record, w_pc, w_idx, w_redacted, w_is_pii, w_found>>

(***************************************************************************)
(* Bounds of the model.                                                    *)
(***************************************************************************)
MaxDigits == 13     \* longest generated run of digits
MaxFields == 3      \* most fields in a generated record
MaxRows == 2        \* most rows in a generated input file
NumWorkers == 2     \* concurrent callers of one shared detector

(***************************************************************************)
(* Characters and Python's string methods.                                 *)
(***************************************************************************)
UpperSeq == <<"A", "B", "C", "D", "E", "F", "G", "H", "I", "J", "K", "L", "M",
              "N", "O", "P", "Q", "R", "S", "T", "U", "V", "W", "X", "Y", "Z">>
LowerSeq == <<"a", "b", "c", "d", "e", "f", "g", "h", "i", "j", "k", "l", "m",
              "n", "o", "p", "q", "r", "s", "t", "u", "v", "w", "x", "y", "z">>
Range(f) == {f[i] : i \in DOMAIN f}
Upper == Range(UpperSeq)
Lower == Range(LowerSeq)
Alpha == Upper \cup Lower
Digit == {"0", "1", "2", "3", "4", "5", "6", "7", "8", "9"}
Whitespace == {" ", "\t", "\n"}
\* \w
WordChar == Alpha \cup Digit \cup {"_"}

AllIn(s, C) == \A i \in 1..Len(s) : s[i] \in C
\* str.isdigit(), str.isalpha(): false of the empty string
IsDigitStr(s) == Len(s) > 0 /\ AllIn(s, Digit)
IsAlphaStr(s) == Len(s) > 0 /\ AllIn(s, Alpha)
\* c in s
Contains(s, c) == \E i \in 1..Len(s) : s[i] = c
Count(s, c) == Cardinality({i \in 1..Len(s) : s[i] = c})
\* s[:n], s[-n:]
Prefix(s, n) == SubSeq(s, 1, IF n < Len(s) THEN n ELSE Len(s))
Suffix(s, n) == SubSeq(s, (IF n < Len(s) THEN Len(s) - n ELSE 0) + 1, Len(s))
\* s.replace(c, "")
Remove(s, c) == SelectSeq(s, LAMBDA x : x # c)

\* str.strip()
RECURSIVE LStrip(_)
LStrip(s) ==
    IF Len(s) > 0 /\ s[1] \in Whitespace THEN LStrip(Tail(s)) ELSE s
RECURSIVE RStrip(_)
RStrip(s) ==
    IF Len(s) > 0 /\ s[Len(s)] \in Whitespace
    THEN RStrip(SubSeq(s, 1, Len(s) - 1)) ELSE s
Strip(s) == RStrip(LStrip(s))

\* str.split(): the maximal runs of non-whitespace characters
RECURSIVE SplitFrom(_, _, _)
SplitFrom(s, i, cur) ==
    IF i > Len(s) THEN (IF cur = <<>> THEN <<>> ELSE <<cur>>)
    ELSE IF s[i] \in Whitespace
         THEN (IF cur = <<>> THEN <<>> ELSE <<cur>>) \o SplitFrom(s, i + 1, <<>>)
         ELSE SplitFrom(s, i + 1, Append(cur, s[i]))
Split(s) == SplitFrom(s, 1, <<>>)

\* str.split("@"): one part more than there are "@", empty parts kept
RECURSIVE SplitAtFrom(_, _, _)
SplitAtFrom(s, i, cur) ==
    IF i > Len(s) THEN <<cur>>
    ELSE IF s[i] = "@" THEN <<cur>> \o SplitAtFrom(s, i + 1, <<>>)
         ELSE SplitAtFrom(s, i + 1, Append(cur, s[i]))
SplitAt(s) == SplitAtFrom(s, 1, <<>>)

\* str.lower()
ToLower(c) ==
    IF c \in Upper THEN LowerSeq[CHOOSE i \in 1..26 : UpperSeq[i] = c] ELSE c
LowerStr(s) == [i \in 1..Len(s) |-> ToLower(s[i])]
\* kw in s, for strings
IsSubstring(kw, s) ==
    \E i \in 1..(Len(s) - Len(kw) + 1) : SubSeq(s, i, i + Len(kw) - 1) = kw

(***************************************************************************)
(* JSON values: truthiness and str().                                      *)
(***************************************************************************)
MkStr(s) == [t |-> "str", s |-> s]
MkNum(s) == [t |-> "num", s |-> s]
Null == [t |-> "null", s |-> <<>>]
\* `if value`, `not value`
Truthy(v) ==
    CASE v.t = "str" -> Len(v.s) > 0
      [] v.t = "num" -> v.s # <<"0">>
      [] OTHER -> FALSE
\* str(value)
Str(v) == IF v.t = "null" THEN <<"N", "o", "n", "e">> ELSE v.s

(***************************************************************************)
(* PIIDetector.__init__: the patterns.  The detector holds the counts of   *)
(* each pattern; the matchers below read them from it.                     *)
(***************************************************************************)
PIIDetectorInit ==
    [phone_pattern |-> 10, aadhar_pattern |-> 12, passport_pattern |-> 7,
     upi_pattern |-> 10, email_pattern |-> 2]

\* Pattern.match with a pattern ending in $: $ matches at the end of the
\* string and also before one trailing newline.  The texts the pattern's
\* body may have to cover.
DollarEnds(s) ==
    {s} \cup (IF Len(s) > 0 /\ s[Len(s)] = "\n"
              THEN {SubSeq(s, 1, Len(s) - 1)} ELSE {})

\* ^\d{10}$
PhoneBody(s) == Len(s) = detector.phone_pattern /\ AllIn(s, Digit)
phone_pattern(s) == \E body \in DollarEnds(s) : PhoneBody(body)
\* ^\d{12}$
AadharBody(s) == Len(s) = detector.aadhar_pattern /\ AllIn(s, Digit)
aadhar_pattern(s) == \E body \in DollarEnds(s) : AadharBody(body)
\* ^[A-Z]\d{7}$
PassportBody(s) ==
    /\ Len(s) = 1 + detector.passport_pattern
    /\ s[1] \in Upper
    /\ AllIn(Tail(s), Digit)
passport_pattern(s) == \E body \in DollarEnds(s) : PassportBody(body)
\* ^[\w.-]+@[\w.-]+$|^\d{10}@\w+$
UpiChar == WordChar \cup {".", "-"}
UpiBody(s) ==
    LET parts == SplitAt(s) IN
    /\ Len(parts) = 2
    /\ \/ /\ Len(parts[1]) > 0 /\ AllIn(parts[1], UpiChar)
          /\ Len(parts[2]) > 0 /\ AllIn(parts[2], UpiChar)
       \/ /\ Len(parts[1]) = detector.upi_pattern /\ AllIn(parts[1], Digit)
          /\ Len(parts[2]) > 0 /\ AllIn(parts[2], WordChar)
upi_pattern(s) == \E body \in DollarEnds(s) : UpiBody(body)
\* ^[A-Za-z0-9._%+-]+@[A-Za-z0-9.-]+\.[A-Z|a-z]{2,}$
EmailLocalChar == Alpha \cup Digit \cup {".", "_", "%", "+", "-"}
EmailDomainChar == Alpha \cup Digit \cup {".", "-"}
EmailTldChar == Alpha \cup {"|"}
EmailBody(s) ==
    LET parts == SplitAt(s) IN
    /\ Len(parts) = 2
    /\ Len(parts[1]) > 0 /\ AllIn(parts[1], EmailLocalChar)
    /\ \E i \in 2..(Len(parts[2]) - detector.email_pattern) :
          /\ parts[2][i] = "."
          /\ AllIn(SubSeq(parts[2], 1, i - 1), EmailDomainChar)
          /\ AllIn(SubSeq(parts[2], i + 1, Len(parts[2])), EmailTldChar)
email_pattern(s) == \E body \in DollarEnds(s) : EmailBody(body)

(***************************************************************************)
(* PIIDetector.is_standalone_pii(key, value)                               *)
(***************************************************************************)
\* value_str = str(value).strip(); a slip that forgets the strip
StandaloneValueStrUnstripped(value) == Str(value)
StandaloneValueStr(value) == Strip(Str(value))
\* key in ["phone", "contact"]; a slip that lets one more field name in
PhoneKeysWidened == {"phone", "contact", "mobile"}
PhoneKeys == {"phone", "contact"}
is_standalone_pii(key, value) ==
    IF ~Truthy(value) THEN FALSE
    ELSE LET value_str == StandaloneValueStr(value) IN
         IF key \in PhoneKeys THEN phone_pattern(value_str)
         ELSE IF key = "aadhar" THEN aadhar_pattern(value_str)
         ELSE IF key = "passport" THEN passport_pattern(value_str)
         ELSE IF key = "upi_id" THEN upi_pattern(value_str)
         ELSE FALSE

(***************************************************************************)
(* PIIDetector.is_full_name(value), value a str                            *)
(***************************************************************************)
is_full_name(value) ==
    LET parts == Split(Strip(value)) IN
    IF Len(parts) >= 2
    THEN \A i \in 1..Len(parts) : IsAlphaStr(Remove(Remove(parts[i], "-"), "'"))
    ELSE FALSE

(***************************************************************************)
(* PIIDetector.is_physical_address(value), value a str                     *)
(***************************************************************************)
address_keywords ==
    {<<"r", "o", "a", "d">>, <<"s", "t", "r", "e", "e", "t">>,
     <<"l", "a", "n", "e">>, <<"a", "v", "e", "n", "u", "e">>,
     <<"n", "a", "g", "a", "r">>, <<"c", "o", "l", "o", "n", "y">>,
     <<"p", "a", "r", "k">>}
\* re.search(r"\b\d{6}\b", value)
HasPincode(s) ==
    \E i \in 1..(Len(s) - 5) :
        /\ AllIn(SubSeq(s, i, i + 5), Digit)
        /\ (i = 1 \/ s[i - 1] \notin WordChar)
        /\ (i + 5 = Len(s) \/ s[i + 6] \notin WordChar)
is_physical_address(value) ==
    LET value_lower == LowerStr(value)
        has_number == \E i \in 1..Len(value) : value[i] \in Digit
        has_comma == Contains(value, ",")
        word_count == Len(Split(value)) >= 5
        has_pincode == HasPincode(value)
        has_keyword == \E kw \in address_keywords : IsSubstring(kw, value_lower)
    IN  (has_number /\ has_comma /\ word_count) \/ (has_pincode /\ has_keyword)

(***************************************************************************)
(* PIIDetector.mask_value(key, value)                                      *)
(***************************************************************************)
GenericMask == <<"[", "R", "E", "D", "A", "C", "T", "E", "D", "_", "P", "I", "I", "]">>
XXX == <<"X", "X", "X">>
\* the email branch: taken when "@" in value_str and there are two parts
MaskEmail(value_str) ==
    LET parts == SplitAt(value_str)
        local == parts[1]
        masked_local == IF Len(local) > 2 THEN Prefix(local, 2) \o XXX ELSE XXX
    IN  masked_local \o <<"@">> \o parts[2]
MaskName(value_str) ==
    LET parts == Split(value_str)
        first == parts[1]
        last == parts[Len(parts)]
    IN  <<first[1]>> \o XXX \o <<" ">> \o <<last[1]>> \o XXX \o <<"X">>
MaskUpi(value_str) ==
    LET parts == SplitAt(value_str)
        user_part == parts[1]
        masked_user == IF Len(user_part) > 3 THEN Prefix(user_part, 3) \o XXX ELSE XXX
    IN  masked_user \o <<"@">> \o parts[2]
MaskAddress(value_str) ==
    Prefix(value_str, 10) \o <<".", ".", ".", " ", "[", "R", "E", "D", "A", "C", "T", "E", "D", "]">>
\* len(value_str) > 15; a slip that writes >= for >
AddressLongEnoughOffByOne(value_str) == Len(value_str) >= 15
AddressLongEnough(value_str) == Len(value_str) > 15
\* the chain of ifs over the stripped string; a branch whose inner test
\* fails falls through to the following ifs and so to the last return
MaskStr(key, value_str) ==
    IF key \in {"phone", "contact"} /\ Len(value_str) = 10 /\ IsDigitStr(value_str)
    THEN Prefix(value_str, 2) \o XXX \o XXX \o Suffix(value_str, 2)
    ELSE IF key = "aadhar" /\ Len(value_str) = 12 /\ IsDigitStr(value_str)
    THEN Prefix(value_str, 4) \o XXX \o <<"X">> \o Suffix(value_str, 4)
    ELSE IF key = "email" /\ Contains(value_str, "@") /\ Len(SplitAt(value_str)) = 2
    THEN MaskEmail(value_str)
    ELSE IF key = "name" /\ Len(Split(value_str)) >= 2
    THEN MaskName(value_str)
    ELSE IF key = "address" /\ AddressLongEnough(value_str)
    THEN MaskAddress(value_str)
    ELSE IF key = "upi_id" /\ Contains(value_str, "@") /\ Len(SplitAt(value_str)) = 2
    THEN MaskUpi(value_str)
    ELSE IF /\ key = "passport" /\ Len(value_str) = 8
            /\ value_str[1] \in Alpha /\ IsDigitStr(Tail(value_str))
    THEN <<value_str[1]>> \o XXX \o Suffix(value_str, 4)
    ELSE GenericMask
mask_value(key, value) ==
    IF ~Truthy(value) THEN value
    ELSE MkStr(MaskStr(key, Strip(Str(value))))

(***************************************************************************)
(* Python dicts: a sequence of [k, v] fields with distinct keys.           *)
(***************************************************************************)
Field(k, v) == [k |-> k, v |-> v]
\* k in d
HasKey(d, k) == \E i \in 1..Len(d) : d[i].k = k
\* d[k]
Get(d, k) == d[CHOOSE i \in 1..Len(d) : d[i].k = k].v
\* d[k] = v: replaces the value in place, or inserts k at the end
DictSet(d, k, v) ==
    IF HasKey(d, k)
    THEN [i \in 1..Len(d) |-> IF d[i].k = k THEN Field(k, v) ELSE d[i]]
    ELSE Append(d, Field(k, v))
KeysOf(d) == [i \in 1..Len(d) |-> d[i].k]

(***************************************************************************)
(* PIIDetector.detect_combinatorial_pii(data)                              *)
(***************************************************************************)
\* the two nested ifs of the device_id / ip_address branch
DeviceLinked(data) ==
    /\ \E k \in {"name", "email"} : HasKey(data, k) /\ Truthy(Get(data, k))
    /\ \/ HasKey(data, "name") /\ is_full_name(Str(Get(data, "name")))
       \/ HasKey(data, "email") /\ email_pattern(Str(Get(data, "email")))
\* one pass of the loop body: whether key is appended to found_pii
CountsField(data, key, value) ==
    IF ~Truthy(value) THEN FALSE
    ELSE LET value_str == Strip(Str(value)) IN
         IF key = "name" /\ is_full_name(value_str) THEN TRUE
         ELSE IF key = "email" /\ email_pattern(value_str) THEN TRUE
         ELSE IF key = "address" /\ is_physical_address(value_str) THEN TRUE
         ELSE IF key \in {"device_id", "ip_address"} /\ Truthy(value)
         THEN DeviceLinked(data)
         ELSE FALSE
RECURSIVE FoundFrom(_, _, _)
FoundFrom(data, i, found_pii) ==
    IF i > Len(data) THEN found_pii
    ELSE FoundFrom(data, i + 1,
                   IF CountsField(data, data[i].k, data[i].v)
                   THEN Append(found_pii, data[i].k) ELSE found_pii)
\* len(found_pii) >= 2
EnoughFields(found_pii) == Len(found_pii) >= 2
detect_combinatorial_pii(data) ==
    LET found_pii == FoundFrom(data, 1, <<>>)
    IN  [flag |-> EnoughFields(found_pii), fields |-> found_pii]

(***************************************************************************)
(* PIIDetector.process_record(record)                                      *)
(***************************************************************************)
\* the first loop's test
StandaloneField(key, value) == Truthy(value) /\ is_standalone_pii(key, value)
\* redacted_data[key] = self.mask_value(key, str(value))
StoreMasked(redacted_data, key, value) ==
    DictSet(redacted_data, key, mask_value(key, MkStr(Str(value))))
\* redacted_data[key] = value; a slip that skips the empty values
StoreCopyUnlessEmpty(redacted_data, key, value) ==
    IF Truthy(value) THEN DictSet(redacted_data, key, value) ELSE redacted_data
StoreCopy(redacted_data, key, value) == DictSet(redacted_data, key, value)
\* one pass of the first loop's body
FirstLoopStep(redacted_data, key, value) ==
    IF StandaloneField(key, value)
    THEN StoreMasked(redacted_data, key, value)
    ELSE StoreCopy(redacted_data, key, value)
RECURSIVE FirstLoop(_, _, _)
FirstLoop(rec, i, redacted_data) ==
    IF i > Len(rec) THEN redacted_data
    ELSE FirstLoop(rec, i + 1, FirstLoopStep(redacted_data, rec[i].k, rec[i].v))
StandaloneHit(rec) ==
    \E i \in 1..Len(rec) : StandaloneField(rec[i].k, rec[i].v)
\* `if not is_pii:` after the first loop; a slip that drops the test
SecondPassAlways(hit) == TRUE
SecondPassRuns(hit) == ~hit
\* one pass of the loop over found_fields
SecondLoopStep(rec, redacted_data, field) ==
    IF HasKey(rec, field) /\ Truthy(Get(rec, field))
    THEN StoreMasked(redacted_data, field, Get(rec, field))
    ELSE redacted_data
RECURSIVE SecondLoop(_, _, _, _)
SecondLoop(rec, redacted_data, found_fields, j) ==
    IF j > Len(found_fields) THEN redacted_data
    ELSE SecondLoop(rec, SecondLoopStep(rec, redacted_data, found_fields[j]),
                    found_fields, j + 1)
process_record(rec) ==
    LET first == FirstLoop(rec, 1, <<>>)
        hit == StandaloneHit(rec)
        comb == detect_combinatorial_pii(rec)
    IN  IF SecondPassRuns(hit) /\ comb.flag
        THEN [data |-> SecondLoop(rec, first, comb.fields, 1), is_pii |-> TRUE]
        ELSE [data |-> first, is_pii |-> hit]

(***************************************************************************)
(* Inputs.                                                                 *)
(***************************************************************************)
DigitSeq == <<"0", "1", "2", "3", "4", "5", "6", "7", "8", "9">>
\* "9876543210987..." cut to n digits
DigitRun(n) == [i \in 1..n |-> DigitSeq[((10 - (i % 10)) % 10) + 1]]
\* a run of digits with one character replaced
Replaced(s, i, c) == [j \in 1..Len(s) |-> IF j = i THEN c ELSE s[j]]
DigitBodies ==
    {DigitRun(n) : n \in 0..MaxDigits}
    \cup {Replaced(DigitRun(n), i, c) :
            n \in 1..MaxDigits, i \in 1..MaxDigits, c \in {"a", " ", "-"}}
S_Phone == DigitRun(10)
S_AshaRao == <<"A", "s", "h", "a", " ", "R", "a", "o">>
S_Asha == <<"A", "s", "h", "a">>
S_OBrien == <<"O", "'", "B", "r", "i", "e", "n", " ", "S", "m", "i", "t", "h", "-", "J", "o", "n", "e", "s">>
S_AshaKRao == <<"A", "s", "h", "a", " ", "K", " ", "R", "a", "o">>
S_AshaR4o == <<"A", "s", "h", "a", " ", "R", "4", "o">>
S_Email == <<"a", "@", "b", ".", "c", "o">>
S_EmailPadded == <<" ">> \o S_Email
S_EmailNewline == S_Email \o <<"\n">>
S_EmailLong == <<"a", "s", "h", "a", "@", "b", ".", "c", "o">>
S_EmailTwo == <<"a", "b", "@", "b", ".", "c", "o">>
S_EmailNoTld == <<"a", "@", "b">>
S_EmailTwoAt == <<"a", "@", "b", "@", "c", ".", "c", "o">>
S_EmailBar == <<"a", "@", "b", ".", "c", "|">>
S_Upi == <<"a", "s", "h", "a", "@", "u", "p", "i">>
S_UpiPhone == S_Phone \o <<"@", "u", "p", "i">>
S_UpiShort == <<"a", "b", "c", "@", "u", "p", "i">>
S_Passport == <<"A", "1", "2", "3", "4", "5", "6", "7">>
S_PassportLower == <<"a", "1", "2", "3", "4", "5", "6", "7">>
S_PassportTwo == <<"A", "B", "1", "2", "3", "4", "5", "6">>
S_Address == <<"4", ",", " ", "M", "G", " ", "R", "o", "a", "d", ",", " ", "P", "u", "n", "e", " ", "4", "1", "1", "0", "0", "1">>
S_AddressBaker == <<"2", "2", "1", "B", ",", " ", "B", "a", "k", "e", "r", " ", "S", "t", "r", "e", "e", "t", ",", " ", "N", "e", "a", "r", " ", "P", "a", "r", "k", ",", " ", "5", "6", "0", "0", "0", "1">>
S_AddressShort == <<"1", "2", ",", " ", "M", "G", " ", "R", "o", "a", "d">>
S_AddressFifteen == <<"1", "2", ",", " ", "M", "G", " ", "R", "o", "a", "d", ",", "G", "o", "a">>
S_AddressSixteen == <<"1", "2", ",", " ", "M", "G", " ", "R", "o", "a", "d", ",", " ", "G", "o", "a">>
S_AddressNoComma == <<"F", "l", "a", "t", " ", "4", " ", "M", "G", " ", "R", "o", "a", "d", " ", "P", "u", "n", "e">>
S_AddressPin == <<"P", "a", "r", "k", " ", "4", "1", "1", "0", "0", "1">>
S_AddressPinLong == <<"P", "a", "r", "k", " ", "4", "1", "1", "0", "0", "1", "1">>
S_Pune == <<"P", "u", "n", "e">>
S_Device == <<"a", "b", "c", "1", "2", "3">>
S_Ip == <<"1", ".", "2">>
SampleBodies ==
    {S_AshaRao, S_Asha, S_OBrien, S_AshaKRao, S_AshaR4o,
     S_Email, S_EmailLong, S_EmailTwo, S_EmailNoTld, S_EmailTwoAt, S_EmailBar,
     S_Upi, S_UpiPhone, S_UpiShort,
     S_Passport, S_PassportLower, S_PassportTwo,
     S_Address, S_AddressBaker, S_AddressShort, S_AddressFifteen,
     S_AddressSixteen, S_AddressNoComma, S_AddressPin, S_AddressPinLong,
     S_Pune, S_Device, S_Ip, GenericMask}
Pads == {<<>>, <<" ">>}
PureValues ==
    {MkStr(l \o b \o r) : l \in Pads, b \in SampleBodies \cup DigitBodies, r \in Pads}
    \cup {MkStr(S_EmailNewline), Null, MkNum(<<"0">>)}
    \cup {MkNum(DigitRun(n)) : n \in 1..MaxDigits}
PureKeys ==
    {"phone", "contact", "aadhar", "passport", "upi_id", "name", "email",
     "address", "device_id", "city"}

\* the values a generated record may hold under each field name
Pool(k) ==
    CASE k = "name" -> {MkStr(S_AshaRao), MkStr(S_Asha), Null}
      [] k = "email" ->
            {MkStr(S_Email), MkStr(S_EmailPadded), MkStr(S_EmailNewline),
             MkStr(S_EmailNoTld)}
      [] k = "address" -> {MkStr(S_Address), MkStr(S_Pune)}
      [] k = "device_id" -> {MkStr(S_Device), MkStr(<<>>)}
      [] k = "ip_address" -> {MkStr(S_Ip)}
      [] k = "phone" -> {MkStr(S_Phone), MkStr(DigitRun(5))}
      [] k = "city" -> {MkStr(S_Pune)}
      [] k = "mobile" -> {MkNum(S_Phone)}
KnownKeys ==
    {"phone", "contact", "aadhar", "passport", "upi_id", "name", "email",
     "address", "device_id", "ip_address"}
RecordKeys ==
    {"name", "email", "address", "device_id", "ip_address", "phone", "city", "mobile"}
Fields == UNION {{Field(k, v) : v \in Pool(k)} : k \in RecordKeys}
DistinctKeys(d) == \A i, j \in 1..Len(d) : d[i].k = d[j].k => i = j
Records ==
    UNION {{d \in [1..n -> Fields] : DistinctKeys(d)} : n \in 0..MaxFields}

(***************************************************************************)
(* Direct calls of is_standalone_pii and mask_value (SpecPure) and of      *)
(* process_record and detect_combinatorial_pii (SpecRecord).               *)
(***************************************************************************)
NoRet == [op |-> "none", b |-> FALSE, v |-> Null]
IdlePure == in_key = "" /\ in_value = Null /\ ret = NoRet
IdleRecord ==
    /\ record = <<>> /\ redacted = <<>> /\ is_pii = FALSE
    /\ has_comb = FALSE /\ found = <<>>
IdleMain ==
    /\ rows = <<>> /\ idx = 0 /\ out = <<>>
    /\ records_processed = 0 /\ pii_detected = 0
IdleWorkers ==
    /\ w_given = <<>> /\ w_record = <<>> /\ w_pc = <<>> /\ w_idx = <<>>
    /\ w_redacted = <<>> /\ w_is_pii = <<>> /\ w_found = <<>>
pureVars == <<in_key, in_value, ret>>
recordVars == <<record, redacted, is_pii, has_comb, found>>
mainVars == <<rows, idx, out, records_processed, pii_detected>>
workerVars == <<w_given, w_record, w_pc, w_idx, w_redacted, w_is_pii, w_found>>

InitPure ==
    /\ detector = PIIDetectorInit
    /\ pc = "ready"
    /\ in_key \in PureKeys
    /\ in_value \in PureValues
    /\ ret = NoRet
    /\ IdleRecord /\ IdleMain /\ IdleWorkers
CallIsStandalonePii ==
    /\ pc = "ready"
    /\ ret' = [op |-> "is_standalone_pii",
               b |-> is_standalone_pii(in_key, in_value), v |-> Null]
    /\ pc' = "returned"
    /\ UNCHANGED <<detector, in_key, in_value, recordVars, mainVars, workerVars>>
CallMaskValue ==
    /\ pc = "ready"
    /\ ret' = [op |-> "mask_value", b |-> FALSE,
               v |-> mask_value(in_key, in_value)]
    /\ pc' = "returned"
    /\ UNCHANGED <<detector, in_key, in_value, recordVars, mainVars, workerVars>>
NextPure == CallIsStandalonePii \/ CallMaskValue
SpecPure == InitPure /\ [][NextPure]_vars

InitRecord ==
    /\ detector = PIIDetectorInit
    /\ pc = "ready"
    /\ record \in Records
    /\ redacted = <<>> /\ is_pii = FALSE /\ has_comb = FALSE /\ found = <<>>
    /\ IdlePure /\ IdleMain /\ IdleWorkers
CallProcessRecord ==
    /\ pc = "ready"
    /\ LET r == process_record(record) IN
       redacted' = r.data /\ is_pii' = r.is_pii
    /\ pc' = "processed"
    /\ UNCHANGED <<detector, record, has_comb, found, pureVars, mainVars, workerVars>>
CallDetectCombinatorial ==
    /\ pc = "ready"
    /\ LET r == detect_combinatorial_pii(record) IN
       has_comb' = r.flag /\ found' = r.fields
    /\ pc' = "detected"
    /\ UNCHANGED <<detector, record, redacted, is_pii, pureVars, mainVars, workerVars>>
NextRecord == CallProcessRecord \/ CallDetectCombinatorial
SpecRecord == InitRecord /\ [][NextRecord]_vars

(***************************************************************************)
(* main: the loop over the reader's rows (SpecMain).  A row is its         *)
(* record_id, and its data_json as what json.loads and the repair make of  *)
(* it:                                                                     *)
(*   "object"              json.loads gives the dict `data`                *)
(*   "not_object"          json.loads gives a list, string, number or null *)
(*   "repairable"          JSONDecodeError; the repaired text loads to the *)
(*                         dict `data`                                     *)
(*   "repaired_not_object" JSONDecodeError; the repaired text loads to a   *)
(*                         value that is no dict                           *)
(*   "broken"              JSONDecodeError, also of the repaired text      *)
(*   "empty"               the cell is empty or blank                      *)
(*   "missing"             the row is shorter than the header: None        *)
(***************************************************************************)
R_Phone == <<Field("phone", MkStr(S_Phone))>>
R_City == <<Field("city", MkStr(S_Pune))>>
R_NameEmail == <<Field("name", MkStr(S_AshaRao)), Field("email", MkStr(S_Email))>>
MainRecords == {R_Phone, R_City, R_NameEmail}
RecordIds == {<<"7">>, <<" ">>}
Row(id, payload, data) == [record_id |-> id, payload |-> payload, data |-> data]
InputRows ==
    {Row(id, p, d) : id \in RecordIds, p \in {"object", "repairable"}, d \in MainRecords}
    \cup {Row(id, p, <<>>) : id \in RecordIds,
            p \in {"not_object", "repaired_not_object", "broken", "empty", "missing"}}
\* f'{is_pii}'
BoolStr(b) == IF b THEN "True" ELSE "False"
OutRow(id, data, flag) == [record_id |-> id, data |-> data, is_pii |-> flag]
CurrentRow == rows[idx]
InLoop == pc = "loop" /\ idx <= Len(rows)
\* `if not record_id or not data_json: continue`
SkippedRow(row) == Strip(row.record_id) = <<>> \/ row.payload = "empty"

InitMain ==
    /\ detector = PIIDetectorInit
    /\ pc = "loop"
    /\ rows \in UNION {[1..n -> InputRows] : n \in 0..MaxRows}
    /\ idx = 1
    /\ out = <<>>
    /\ records_processed = 0
    /\ pii_detected = 0
    /\ IdlePure /\ IdleRecord /\ IdleWorkers
\* row.get("data_json", ...) is None: .strip() raises outside the inner
\* try, main's outer handler exits with status 1
AbortOnShortRow ==
    /\ InLoop /\ CurrentRow.payload = "missing"
    /\ pc' = "exit_1"
    /\ UNCHANGED <<detector, rows, idx, out, records_processed, pii_detected,
                   pureVars, recordVars, workerVars>>
SkipRow ==
    /\ InLoop /\ CurrentRow.payload # "missing" /\ SkippedRow(CurrentRow)
    /\ idx' = idx + 1
    /\ UNCHANGED <<detector, pc, rows, out, records_processed, pii_detected,
                   pureVars, recordVars, workerVars>>
\* the try block runs to its end
WriteRedactedRow ==
    /\ InLoop /\ ~SkippedRow(CurrentRow) /\ CurrentRow.payload = "object"
    /\ LET r == process_record(CurrentRow.data) IN
       /\ records_processed' = records_processed + 1
       /\ pii_detected' = IF r.is_pii THEN pii_detected + 1 ELSE pii_detected
       /\ out' = Append(out, OutRow(Strip(CurrentRow.record_id), r.data,
                                    BoolStr(r.is_pii)))
    /\ idx' = idx + 1
    /\ UNCHANGED <<detector, pc, rows, pureVars, recordVars, workerVars>>
\* process_record raises on a value without .items(): `except Exception`
\* prints and continues
DropFailedRow ==
    /\ InLoop /\ ~SkippedRow(CurrentRow) /\ CurrentRow.payload = "not_object"
    /\ idx' = idx + 1
    /\ UNCHANGED <<detector, pc, rows, out, records_processed, pii_detected,
                   pureVars, recordVars, workerVars>>
\* `except json.JSONDecodeError`, the repaired text loads to a dict
WriteRepairedRow ==
    /\ InLoop /\ ~SkippedRow(CurrentRow) /\ CurrentRow.payload = "repairable"
    /\ LET r == process_record(CurrentRow.data) IN
       out' = Append(out, OutRow(Strip(CurrentRow.record_id), r.data,
                                 BoolStr(r.is_pii)))
    /\ idx' = idx + 1
    /\ UNCHANGED <<detector, pc, rows, records_processed, pii_detected,
                   pureVars, recordVars, workerVars>>
\* `except json.JSONDecodeError`, then the inner `except Exception`
WriteErrorRow ==
    /\ InLoop /\ ~SkippedRow(CurrentRow)
    /\ CurrentRow.payload \in {"repaired_not_object", "broken"}
    /\ out' = Append(out, OutRow(Strip(CurrentRow.record_id), <<>>, "Error"))
    /\ idx' = idx + 1
    /\ UNCHANGED <<detector, pc, rows, records_processed, pii_detected,
                   pureVars, recordVars, workerVars>>
\* the loop is over: the three prints
PrintSummary ==
    /\ pc = "loop" /\ idx > Len(rows)
    /\ pc' = "done"
    /\ UNCHANGED <<detector, rows, idx, out, records_processed, pii_detected,
                   pureVars, recordVars, workerVars>>
NextMain ==
    \/ AbortOnShortRow \/ SkipRow \/ WriteRedactedRow \/ DropFailedRow
    \/ WriteRepairedRow \/ WriteErrorRow \/ PrintSummary
SpecMain == InitMain /\ [][NextMain]_vars

(***************************************************************************)
(* Several workers calling process_record on one shared detector           *)
(* (SpecWorkers): process_record step by step, one loop pass per step,     *)
(* each call with its own locals.                                          *)
(***************************************************************************)
Workers == 1..NumWorkers
R_PhoneName == <<Field("phone", MkStr(S_Phone)), Field("name", MkStr(S_AshaRao))>>
R_NameEmailDevice ==
    <<Field("name", MkStr(S_AshaRao)), Field("email", MkStr(S_Email)),
      Field("device_id", MkStr(S_Device))>>
R_Name == <<Field("name", MkStr(S_AshaRao))>>
WorkerRecords == {R_PhoneName, R_NameEmailDevice, R_City, R_Name}

InitWorkers ==
    /\ detector = PIIDetectorInit
    /\ pc = "workers"
    /\ w_given \in [Workers -> WorkerRecords]
    /\ w_record = w_given
    /\ w_pc = [w \in Workers |-> "first_loop"]
    /\ w_idx = [w \in Workers |-> 1]
    /\ w_redacted = [w \in Workers |-> <<>>]
    /\ w_is_pii = [w \in Workers |-> FALSE]
    /\ w_found = [w \in Workers |-> <<>>]
    /\ IdlePure /\ IdleRecord /\ IdleMain
\* redacted_data is a local of the call; a slip that keeps it on the
\* detector, where every call writes the same dict
SetRedactedShared(w, d) == [x \in DOMAIN w_redacted |-> d]
SetRedacted(w, d) == [w_redacted EXCEPT ![w] = d]
W_FirstLoopStep(w) ==
    /\ w_pc[w] = "first_loop" /\ w_idx[w] <= Len(w_record[w])
    /\ LET f == w_record[w][w_idx[w]] IN
       /\ w_redacted' = SetRedacted(w, FirstLoopStep(w_redacted[w], f.k, f.v))
       /\ w_is_pii' = [w_is_pii EXCEPT ![w] = @ \/ StandaloneField(f.k, f.v)]
    /\ w_idx' = [w_idx EXCEPT ![w] = @ + 1]
    /\ UNCHANGED <<detector, pc, w_given, w_record, w_pc, w_found,
                   pureVars, recordVars, mainVars>>
W_FirstLoopEnd(w) ==
    /\ w_pc[w] = "first_loop" /\ w_idx[w] > Len(w_record[w])
    /\ LET comb == detect_combinatorial_pii(w_record[w]) IN
       IF SecondPassRuns(w_is_pii[w]) /\ comb.flag
       THEN /\ w_is_pii' = [w_is_pii EXCEPT ![w] = TRUE]
            /\ w_found' = [w_found EXCEPT ![w] = comb.fields]
            /\ w_idx' = [w_idx EXCEPT ![w] = 1]
            /\ w_pc' = [w_pc EXCEPT ![w] = "second_loop"]
       ELSE /\ w_pc' = [w_pc EXCEPT ![w] = "return"]
            /\ UNCHANGED <<w_is_pii, w_found, w_idx>>
    /\ UNCHANGED <<detector, pc, w_given, w_record, w_redacted,
                   pureVars, recordVars, mainVars>>
W_SecondLoopStep(w) ==
    /\ w_pc[w] = "second_loop" /\ w_idx[w] <= Len(w_found[w])
    /\ w_redacted' = SetRedacted(w, SecondLoopStep(w_record[w], w_redacted[w],
                                                   w_found[w][w_idx[w]]))
    /\ w_idx' = [w_idx EXCEPT ![w] = @ + 1]
    /\ UNCHANGED <<detector, pc, w_given, w_record, w_pc, w_is_pii, w_found,
                   pureVars, recordVars, mainVars>>
W_SecondLoopEnd(w) ==
    /\ w_pc[w] = "second_loop" /\ w_idx[w] > Len(w_found[w])
    /\ w_pc' = [w_pc EXCEPT ![w] = "return"]
    /\ UNCHANGED <<detector, pc, w_given, w_record, w_idx, w_redacted,
                   w_is_pii, w_found, pureVars, recordVars, mainVars>>
FirstLoopSteps == \E w \in Workers : W_FirstLoopStep(w)
FirstLoopEnds == \E w \in Workers : W_FirstLoopEnd(w)
SecondLoopSteps == \E w \in Workers : W_SecondLoopStep(w)
SecondLoopEnds == \E w \in Workers : W_SecondLoopEnd(w)
NextWorkers == FirstLoopSteps \/ FirstLoopEnds \/ SecondLoopSteps \/ SecondLoopEnds
SpecWorkers == InitWorkers /\ [][NextWorkers]_vars

(***************************************************************************)
(* Properties of the direct calls.                                         *)
(***************************************************************************)
InSeq(q, x) == \E i \in 1..Len(q) : q[i] = x
TenDigits(s) == Len(s) = 10 /\ AllIn(s, Digit)
ReturnedFrom(op) == pc = "returned" /\ ret.op = op

\* C7, as stated: is_standalone_pii("phone", v) is true exactly when the
\* string v itself is 10 decimal digits; a v of another length or with any
\* other character in it, surrounding whitespace included, gives false.
C7_PhoneTrueIffRawTenDigits ==
    (ReturnedFrom("is_standalone_pii") /\ in_key = "phone" /\ in_value.t = "str")
        => (ret.b <=> TenDigits(in_value.s))
\* C7, amended: is_standalone_pii("phone", v) is true exactly when v is
\* non-empty and its string form, with surrounding whitespace trimmed, is
\* 10 decimal digits.
C7_PhoneTrueIffTrimmedTenDigits ==
    (ReturnedFrom("is_standalone_pii") /\ in_key = "phone")
        => (ret.b <=> (Truthy(in_value) /\ TenDigits(Strip(Str(in_value)))))
\* a phone number with whitespace around it was accepted
C7_PaddedPhoneAccepted ==
    /\ ReturnedFrom("is_standalone_pii") /\ in_key = "phone"
    /\ in_value = MkStr(<<" ">> \o S_Phone \o <<" ">>)
    /\ ret.b

MaskKeys ==
    {"phone", "contact", "aadhar", "email", "name", "address", "upi_id", "passport"}
\* the format preconditions as C8 lists them
FormatPrecondition(key, s) ==
    CASE key \in {"phone", "contact"} -> Len(s) = 10 /\ AllIn(s, Digit)
      [] key = "aadhar" -> Len(s) = 12 /\ AllIn(s, Digit)
      [] key \in {"email", "upi_id"} -> Count(s, "@") = 1
      [] key = "name" -> Len(Split(s)) >= 2
      [] key = "address" -> Len(s) > 15
      [] key = "passport" ->
            Len(s) = 8 /\ s[1] \in Alpha /\ AllIn(Tail(s), Digit)
      [] OTHER -> FALSE
MaskedNonEmpty == ReturnedFrom("mask_value") /\ Truthy(in_value)
\* C8, as stated: mask_value gives the generic placeholder for a non-empty
\* value under any other field name, and for a non-empty value that fails
\* the format precondition of its field; and an output of a format's own
\* never equals the placeholder.
C8_GenericWhenRawValueFailsFormat ==
    MaskedNonEmpty =>
        /\ (in_key \notin MaskKeys \/ ~FormatPrecondition(in_key, Str(in_value)))
              => ret.v = MkStr(GenericMask)
        /\ FormatPrecondition(in_key, Strip(Str(in_value)))
              => ret.v # MkStr(GenericMask)
\* C8, amended: the format precondition is the one of the value's string
\* form with surrounding whitespace trimmed.  When that fails, or the field
\* name is no format's, the result is the generic placeholder; when it
\* holds, the result is not the placeholder.
C8_GenericIffTrimmedValueFailsFormat ==
    MaskedNonEmpty =>
        (ret.v = MkStr(GenericMask)
            <=> (in_key \notin MaskKeys
                    \/ ~FormatPrecondition(in_key, Strip(Str(in_value)))))
\* an address of exactly 15 characters got the placeholder
C8_ShortAddressGeneric ==
    /\ MaskedNonEmpty /\ in_key = "address"
    /\ in_value = MkStr(S_AddressFifteen)
    /\ ret.v = MkStr(GenericMask)

\* C1: when some field of the record standalone-matches, every field that
\* does not standalone-match keeps its value in process_record's output,
\* also when the combinatorial detector would have flagged the record.
C1_StandaloneHitSkipsCombinatorial ==
    (pc = "processed" /\ StandaloneHit(record)) =>
        /\ is_pii
        /\ Len(redacted) = Len(record)
        /\ \A i \in 1..Len(record) :
              ~StandaloneField(record[i].k, record[i].v)
                  => redacted[i] = record[i]
\* a record with a standalone hit that the combinatorial detector flags too
C1_HitAndCombinatorialRecord ==
    /\ pc = "processed" /\ StandaloneHit(record)
    /\ detect_combinatorial_pii(record).flag
    /\ HasKey(record, "name") /\ HasKey(redacted, "name")
    /\ Get(redacted, "name") = MkStr(S_AshaRao)

\* C2: process_record's output has the field names of its input, in the
\* same order.
C2_SameFieldNamesSameOrder ==
    pc = "processed" => KeysOf(redacted) = KeysOf(record)
\* a record of several fields, one empty, whose values were replaced
C2_MaskedRecordWithEmptyField ==
    /\ pc = "processed" /\ Len(record) >= 3 /\ is_pii
    /\ \E i \in 1..Len(record) : ~Truthy(record[i].v)
    /\ \E i \in 1..Len(record) : redacted[i] # record[i]

\* C3: a field whose name is outside the known set keeps its value, whatever
\* the other fields are; a record of such fields only comes back unchanged
\* with flag false.
C3_UnknownFieldsPassThrough ==
    pc = "processed" =>
        /\ Len(redacted) = Len(record)
        /\ \A i \in 1..Len(record) :
              record[i].k \notin KnownKeys => redacted[i] = record[i]
        /\ (\A i \in 1..Len(record) : record[i].k \notin KnownKeys)
              => (redacted = record /\ ~is_pii)
\* an unknown field holding a phone number, beside fields that were masked
C3_UnknownFieldBesideMasked ==
    /\ pc = "processed" /\ is_pii
    /\ HasKey(record, "mobile") /\ Get(redacted, "mobile") = MkNum(S_Phone)
    /\ \E i \in 1..Len(record) : redacted[i] # record[i]

\* C4: a non-empty device_id or ip_address is in the returned list exactly
\* when the record's name or email is counted (is in the list too).
C4_DeviceCountedIffIdentityCounted ==
    pc = "detected" =>
        \A i \in 1..Len(record) :
            (record[i].k \in {"device_id", "ip_address"} /\ Truthy(record[i].v))
                => (InSeq(found, record[i].k)
                        <=> (InSeq(found, "name") \/ InSeq(found, "email")))

\* the qualifying fields as the specification's section 4.3 defines them
QualifyingIdentity(data) ==
    \E i \in 1..Len(data) :
        /\ Truthy(data[i].v)
        /\ \/ data[i].k = "name" /\ is_full_name(Strip(Str(data[i].v)))
           \/ data[i].k = "email" /\ email_pattern(Strip(Str(data[i].v)))
Qualifying(data, f) ==
    /\ Truthy(f.v)
    /\ CASE f.k = "name" -> is_full_name(Strip(Str(f.v)))
         [] f.k = "email" -> email_pattern(Strip(Str(f.v)))
         [] f.k = "address" -> is_physical_address(Strip(Str(f.v)))
         [] f.k \in {"device_id", "ip_address"} -> QualifyingIdentity(data)
         [] OTHER -> FALSE
QualifyingNames(data) == KeysOf(SelectSeq(data, LAMBDA f : Qualifying(data, f)))
\* C5: the list is exactly the qualifying field names, in record order, and
\* the flag is true iff there are at least 2 of them.
C5_ListIsQualifyingFieldsFlagIffTwo ==
    pc = "detected" =>
        /\ found = QualifyingNames(record)
        /\ has_comb <=> (Len(QualifyingNames(record)) >= 2)

\* the rows main takes as records: those with a record_id and a payload
RecordRows == SelectSeq(rows, LAMBDA row : ~SkippedRow(row))
\* the output row C6 asks for
RowFor(row) ==
    IF row.payload \in {"object", "repairable"}
    THEN OutRow(Strip(row.record_id), process_record(row.data).data,
                BoolStr(process_record(row.data).is_pii))
    ELSE OutRow(Strip(row.record_id), <<>>, "Error")
\* C6: when the loop is over, every input record has exactly one output
\* row, in order: the redacted record with a true/false flag when the
\* payload could be turned into a record, the error marker when it could
\* not.
C6_OneOutputRowPerRecord ==
    pc = "done" => out = [i \in 1..Len(RecordRows) |-> RowFor(RecordRows[i])]

FlagCount(flags) == Cardinality({i \in 1..Len(out) : out[i].is_pii \in flags})
\* C10: after a successful run, "Records processed" is the number of
\* redacted rows written and "PII records detected" the number of rows
\* written with flag true, repaired rows included.
C10_SummaryCountsWrittenRows ==
    pc = "done" =>
        /\ records_processed = FlagCount({"True", "False"})
        /\ pii_detected = FlagCount({"True"})

\* C9: process_record changes neither its input record nor the detector's
\* patterns, and whatever the interleaving, a worker returns what
\* process_record returns for its record alone.
C9_WorkersAgreeWithSequentialCall ==
    /\ detector = PIIDetectorInit
    /\ w_record = w_given
    /\ \A w \in DOMAIN w_pc :
          w_pc[w] = "return"
              => [data |-> w_redacted[w], is_pii |-> w_is_pii[w]]
                    = process_record(w_given[w])
\* all workers returned, one masked by the standalone pass and another by
\* the combinatorial pass
C9_TwoWorkersMaskedDifferently ==
    /\ pc = "workers"
    /\ \A w \in DOMAIN w_pc : w_pc[w] = "return"
    /\ \E v, w \in DOMAIN w_pc :
          /\ w_given[v] = R_PhoneName /\ w_redacted[v] # w_given[v]
          /\ w_given[w] = R_NameEmailDevice /\ w_redacted[w] # w_given[w]

====
